---- MODULE Spec2Model ----
(***************************************************************************)
(* Model of src/src/passwordless.ts: the Client class (register, the       *)
(* sign-in entry points, abort), the capability probes, the base64url      *)
(* codec and the error normaliser.                                          *)
(*                                                                         *)
(* JavaScript runs one synchronous segment at a time, so every action is   *)
(* one segment of an async function: from its call (or from the            *)
(* settlement of the promise it awaits) to its next await or its return.   *)
(* A request is answered in two steps, as the code awaits twice: fetch()   *)
(* resolves with a Response (fetchResolves) and the client calls           *)
(* response.json(); then the body settles and the caller goes on.          *)
(***************************************************************************)
EXTENDS Integers, Sequences, FiniteSets, TLC

\* ------------------------------------------------------------------ bounds

\* Number of ceremony calls made on the one client instance.
MaxCalls == 2

\* Longest byte sequence and longest text given to the codec, and the number of
\* conversions chained on one input.
MaxBytes == 4
MaxText == 3
MaxConversions == 2

\* ------------------------------------------------------------ JS values

\* The value `undefined` where a string is expected (userId, alias, mediation).
Undefined == "undefined"

\* A text value is [type |-> "string", chars |-> <<c1, ..., cn>>]; a binary value
\* is [type |-> "Uint8Array" | "ArrayBuffer" | "Array" | "object", bytes |-> <<b1, ..., bn>>].
Str(cs) == [type |-> "string", chars |-> cs]
Bytes(bs) == [type |-> "Uint8Array", bytes |-> bs]

\* A completion of a piece of code: it returned a value or threw one.
Return(v) == [threw |-> FALSE, val |-> v]
Throw(e) == [threw |-> TRUE, err |-> e]

\* ---------------------------------------------------------------- errors

\* A thrown value, as toErrorWithMessage sees it: whether it is an object with a
\* string message, whether JSON.stringify succeeds on it, and the three texts.
ErrorValue(name, msg) ==
    [name |-> name, hasMessage |-> TRUE, message |-> msg,
     serialisable |-> TRUE, json |-> "{}", str |-> name]

UnsupportedError ==
    ErrorValue("Error", "WebAuthn and PublicKeyCredentials are not supported on this browser/device")
AutofillUnsupportedError ==
    ErrorValue("Error", "Autofill authentication (conditional meditation) is not supported in this browser")
DecodeTypeError ==
    ErrorValue("TypeError", "Cannot convert from Base64Url to ArrayBuffer: Input was not of type string")
EncodeError ==
    ErrorValue("Error", "Cannot convert from ArrayBuffer to Base64Url. Input was not of type ArrayBuffer, Uint8Array or Array")
\* Thrown by the platform, not by this code.
InvalidCharacterError == ErrorValue("InvalidCharacterError", "The string to be decoded is not correctly encoded.")
PropertyOfUndefinedError == ErrorValue("TypeError", "Cannot read properties of undefined")
JsonSyntaxError == ErrorValue("SyntaxError", "Unexpected token in JSON")
AbortError == ErrorValue("AbortError", "signal is aborted without reason")
NotAllowedError == ErrorValue("NotAllowedError", "The operation either timed out or was not allowed.")
FetchFailedError == ErrorValue("TypeError", "Failed to fetch")
\* A thrown string: not an object, JSON.stringify renders it quoted.
ThrownString ==
    [name |-> "string", hasMessage |-> FALSE, message |-> "",
     serialisable |-> TRUE, json |-> "\"offline\"", str |-> "offline"]
\* A thrown cyclic object without a message: JSON.stringify throws on it.
ThrownCyclic ==
    [name |-> "object", hasMessage |-> FALSE, message |-> "",
     serialisable |-> FALSE, json |-> "", str |-> "[object Object]"]

isErrorWithMessage(error) == error.hasMessage

toErrorWithMessage(maybeError) ==
    IF isErrorWithMessage(maybeError) THEN maybeError
    ELSE IF maybeError.serialisable
         THEN ErrorValue("Error", maybeError.json)
         ELSE ErrorValue("Error", maybeError.str)

getErrorMessage(error) == toErrorWithMessage(error).message

\* ----------------------------------------------------------------- codec

B64Chars ==
    << "A","B","C","D","E","F","G","H","I","J","K","L","M","N","O","P",
       "Q","R","S","T","U","V","W","X","Y","Z","a","b","c","d","e","f",
       "g","h","i","j","k","l","m","n","o","p","q","r","s","t","u","v",
       "w","x","y","z","0","1","2","3","4","5","6","7","8","9","+","/" >>

B64Alphabet == {B64Chars[k] : k \in 1..64}
AsciiWhitespace == {" ", "\t", "\n", "\f", "\r"}

B64Index(c) == (CHOOSE k \in 1..64 : B64Chars[k] = c) - 1

Pow2(n) == IF n = 0 THEN 1 ELSE IF n = 2 THEN 4 ELSE IF n = 4 THEN 16
           ELSE IF n = 6 THEN 64 ELSE IF n = 8 THEN 256 ELSE 1024

RECURSIVE Repeat(_, _)
Repeat(c, n) == IF n = 0 THEN << >> ELSE <<c>> \o Repeat(c, n - 1)

RECURSIVE StripTrailing(_, _)
StripTrailing(cs, c) ==
    IF Len(cs) > 0 /\ cs[Len(cs)] = c THEN StripTrailing(SubSeq(cs, 1, Len(cs) - 1), c) ELSE cs

\* window.btoa on a binary string whose char codes are the bytes bs.
btoa(bs) ==
    LET n == Len(bs)
        nSext == (8 * n + 5) \div 6
        byteAt(a) == IF a <= n THEN bs[a] ELSE 0
        sext(k) == LET p == 6 * k
                       a == p \div 8
                       o == p % 8
                       w == byteAt(a + 1) * 256 + byteAt(a + 2)
                   IN (w \div Pow2(10 - o)) % 64
        body == [k \in 1..nSext |-> B64Chars[sext(k - 1) + 1]]
    IN body \o Repeat("=", (4 - (nSext % 4)) % 4)

\* window.atob, the forgiving-base64 decode of the HTML standard, in three steps:
\* remove a trailing "=" or "==" when the length is a multiple of 4 ...
AtobUnpad(noWs) ==
    LET n0 == Len(noWs)
    IN IF n0 % 4 = 0 /\ n0 >= 1 /\ noWs[n0] = "="
       THEN IF n0 >= 2 /\ noWs[n0 - 1] = "="
            THEN SubSeq(noWs, 1, n0 - 2)
            ELSE SubSeq(noWs, 1, n0 - 1)
       ELSE noWs

\* ... fail on a length of 1 mod 4 or a character outside the alphabet, else read
\* the sextets as bytes and drop the bits left over.
AtobDecode(data) ==
    LET n == Len(data)
        s(k) == B64Index(data[k])
        byte(j) == LET p == 8 * j
                       a == p \div 6
                       o == p % 6
                       w == s(a + 1) * 64 + s(a + 2)
                   IN (w \div Pow2(4 - o)) % 256
    IN IF n % 4 = 1 \/ \E k \in 1..n : data[k] \notin B64Alphabet
       THEN Throw(InvalidCharacterError)
       ELSE Return([j \in 1..((6 * n) \div 8) |-> byte(j - 1)])

\* ... after removing ASCII whitespace.
atob(cs) == AtobDecode(AtobUnpad(SelectSeq(cs, LAMBDA c : c \notin AsciiWhitespace)))

\* Variant: the trailing padding is kept.
base64ToBase64UrlPadded(base64) ==
    [k \in 1..Len(base64) |->
        IF base64[k] = "+" THEN "-"
        ELSE IF base64[k] = "/" THEN "_" ELSE base64[k]]

base64ToBase64Url(base64) ==
    StripTrailing([k \in 1..Len(base64) |->
                      IF base64[k] = "+" THEN "-"
                      ELSE IF base64[k] = "/" THEN "_" ELSE base64[k]], "=")

\* Variant: "-" and "_" are not translated back.
base64UrlToBase64Identity(base64Url) == base64Url

base64UrlToBase64(base64Url) ==
    [k \in 1..Len(base64Url) |->
        IF base64Url[k] = "-" THEN "+"
        ELSE IF base64Url[k] = "_" THEN "/" ELSE base64Url[k]]

\* base64Unpadded.padEnd(length + paddingNeeded, "=")
PadEnd(base64Unpadded) ==
    base64Unpadded \o Repeat("=", (4 - (Len(base64Unpadded) % 4)) % 4)

\* The Uint8Array of the char codes of binary, or what atob threw.
BytesOf(binary) == IF binary.threw THEN binary ELSE Return(Bytes(binary.val))

\* Returns a completion: the decoded bytes, or the TypeError / the atob failure.
base64UrlToArrayBuffer(base64UrlString) ==
    IF base64UrlString.type # "string" THEN Throw(DecodeTypeError)
    ELSE BytesOf(atob(PadEnd(base64UrlToBase64(base64UrlString.chars))))

\* Returns a completion: the wire text, or the "unsupported input" Error.
arrayBufferToBase64Url(buffer) ==
    IF buffer.type \notin {"Array", "ArrayBuffer", "Uint8Array"} THEN Throw(EncodeError)
    ELSE Return(Str(base64ToBase64Url(btoa(buffer.bytes))))

\* ------------------------------------------------------- inputs (bounded)

Tokens == {"tok1"}
Nicknames == {"my-key"}
UserIds == {"u1"}
Aliases == {"a1"}
\* The backend issues a fresh session token to every begin request: the i-th
\* ceremony call is given Sessions[i].
Sessions == <<"s1", "s2", "s3", "s4">>

\* window.PublicKeyCredential: absent, a non-callable object, or the constructor.
PkcEnvs == {"undefined", "object", "function"}

WireOk == Str(<<"Q", "U", "J", "D">>)
WireUrl == Str(<<"-", "_", "8">>)
WireBad == Str(<<"Q">>)

\* Bodies of a success response of /register/begin.
RegisterBeginBodies(s) ==
    { [data |-> [challenge |-> WireOk, user |-> [id |-> WireUrl], excludeCredentials |-> << >>],
       session |-> s] }
    \cup
    { [data |-> [challenge |-> WireOk, user |-> [id |-> WireOk],
                 excludeCredentials |-> << [id |-> WireUrl], [id |-> WireBad] >>],
       session |-> s],
      [data |-> [challenge |-> Bytes(<<1, 2>>), user |-> [id |-> WireOk]], session |-> s],
      [error |-> [errorCode |-> "in_success_body"]] }

\* Bodies of a success response of /signin/begin.
SigninBeginBodies(s) ==
    { [data |-> [challenge |-> WireOk, allowCredentials |-> << [id |-> WireUrl] >>],
       session |-> s] }
    \cup
    { [data |-> [challenge |-> WireBad, allowCredentials |-> << >>], session |-> s],
      [data |-> [challenge |-> WireOk, allowCredentials |-> << [id |-> Bytes(<<7>>)] >>],
       session |-> s],
      [error |-> [errorCode |-> "in_success_body"]] }

\* Bodies of a success response of /register/complete and /signin/complete.
TokenBodies == { [token |-> "verify123"] }

\* Bodies of a non-success response (problem details).
ProblemBodies ==
    { [errorCode |-> "invalid_token"],
      [errorCode |-> "unknown_credential", title |-> "Unknown credential", from |-> "client"] }

\* What fetch rejects with: an Error, a thrown string, a thrown cyclic object.
TransportErrors == {FetchFailedError, ThrownString, ThrownCyclic}

\* How a request settles: fetch rejects, the body does not parse as JSON, or a
\* parsed body with response.ok true or false.
Responses(okBodies, errors) ==
    [kind : {"reject"}, err : errors]
    \cup [kind : {"unparsable"}, ok : BOOLEAN]
    \cup [kind : {"json"}, ok : {TRUE}, body : okBodies]
    \cup [kind : {"json"}, ok : {FALSE}, body : ProblemBodies]

NullCredential == [null |-> TRUE]

CreatedCredentials ==
    { [id |-> "cred1", rawId |-> [type |-> "ArrayBuffer", bytes |-> <<251, 255>>],
       attestationObject |-> [type |-> "ArrayBuffer", bytes |-> <<1, 2, 3>>],
       clientDataJSON |-> [type |-> "ArrayBuffer", bytes |-> << >>]],
      [id |-> "cred2", rawId |-> [type |-> "ArrayBuffer", bytes |-> <<4>>],
       attestationObject |-> [type |-> "object", bytes |-> << >>],
       clientDataJSON |-> [type |-> "ArrayBuffer", bytes |-> <<5>>]] }

RetrievedCredentials ==
    { [id |-> "cred1", rawId |-> [type |-> "ArrayBuffer", bytes |-> <<251, 255>>],
       authenticatorData |-> [type |-> "ArrayBuffer", bytes |-> <<1, 2, 3>>],
       clientDataJSON |-> [type |-> "ArrayBuffer", bytes |-> << >>],
       signature |-> [type |-> "ArrayBuffer", bytes |-> <<9, 9>>]],
      [id |-> "cred2", rawId |-> [type |-> "ArrayBuffer", bytes |-> <<4>>],
       authenticatorData |-> [type |-> "ArrayBuffer", bytes |-> <<6>>],
       clientDataJSON |-> [type |-> "ArrayBuffer", bytes |-> <<5>>],
       signature |-> [type |-> "object", bytes |-> << >>]] }

AuthenticatorErrors == {NotAllowedError}

\* ----------------------------------------------------------------- state

VARIABLES
    pkc,              \* window.PublicKeyCredential of the environment
    abortController,  \* identity of this.abortController (0: the one of the constructor)
    aborted,          \* the controllers whose signal is aborted
    calls,            \* the ceremony calls made so far, in call order
    codec             \* the last conversion made with the codec directly, and its results

vars == <<pkc, abortController, aborted, calls, codec>>

\* A ceremony call. pc: the await it is suspended at ("probe", "begin", "auth",
\* "complete") or "done". beginReq, authCall, completeReq: the request or
\* authenticator call issued, as a set of at most one element.
\* History of the call's inputs: respAt, respKind, lastBody record the last response
\* it received (at which await, how it settled, and the parsed body of a non-success
\* or /complete response); cause and endedAt record which input settled the promise
\* and at which await.
\* status is "none" while the call awaits no response body, else the
\* response.ok ("ok", "error") of the Response whose body it awaits.
\* For signinWithAutofill, cma records whether the environment offers
\* isConditionalMediationAvailable ("absent", "present") and probe how
\* isAutofillSupported() settled ("pending", "threw", "false", "true").
\* For a sign-in, armed is the controller its handleAbort installed, and disturbed
\* tells, while it awaits /signin/begin, whether abort() or another sign-in start
\* has run since its own start.
NewCall(op, entry, arg, nickname) ==
    [op |-> op, entry |-> entry, arg |-> arg, nickname |-> nickname,
     pc |-> "call", selector |-> {}, beginReq |-> {}, session |-> Undefined,
     authCall |-> {}, completeReq |-> {},
     outcome |-> "pending", result |-> [pending |-> TRUE],
     respAt |-> "none", respKind |-> "none", lastBody |-> {},
     cause |-> "none", endedAt |-> "none", status |-> "none",
     cma |-> "none", probe |-> "none", armed |-> "none", disturbed |-> FALSE]

\* response.ok as the call record keeps it.
StatusOf(ok) == IF ok THEN "ok" ELSE "error"

\* resp can settle the request call c awaits: a rejection of fetch while no
\* Response has arrived, else a body of the Response that has arrived.
Answers(c, resp) ==
    IF resp.kind = "reject" THEN c.status = "none" ELSE c.status = StatusOf(resp.ok)

\* Call c has received response resp at its current await.
Received(c, resp) ==
    [c EXCEPT !.respAt = c.pc,
              !.status = "none",
              !.respKind = IF resp.kind = "reject" THEN "transport"
                           ELSE IF resp.kind = "unparsable" THEN "unparsable"
                           ELSE IF resp.ok THEN "ok" ELSE "server",
              !.lastBody = IF resp.kind = "json" /\ (~resp.ok \/ c.pc = "complete")
                           THEN {resp.body} ELSE {},
              !.session = IF resp.kind = "json" /\ resp.ok /\ c.pc = "begin"
                                /\ "session" \in DOMAIN resp.body
                          THEN resp.body.session ELSE c.session]

\* The promise of call c settles with completion k (resolve on return, reject on throw).
Settle(c, k, cause) ==
    [c EXCEPT !.pc = "done",
              !.outcome = IF k.threw THEN "rejected" ELSE "resolved",
              !.result = IF k.threw THEN [thrown |-> k.err] ELSE k.val,
              !.cause = cause, !.endedAt = c.pc]

\* A settled call whose result the caller has taken: the client keeps nothing of it.
Forgotten == [NewCall("none", "none", Undefined, Undefined) EXCEPT !.pc = "forgotten"]

\* calls after call i takes record c. Only the latest settlement is kept in full.
Put(i, c) ==
    [j \in 1..(IF i > Len(calls) THEN i ELSE Len(calls)) |->
        IF j = i THEN c
        ELSE IF c.pc = "done" /\ calls[j].pc = "done" THEN Forgotten
        ELSE calls[j]]

\* No conversion has been made with the codec directly.
NoConversion == [input |-> Undefined, steps |-> << >>]

Init ==
    /\ pkc \in PkcEnvs
    /\ abortController = 0
    /\ aborted = {}
    /\ calls = << >>
    /\ codec = NoConversion

\* ------------------------------------------------------ capability probes

isBrowserSupported == pkc = "function"

\* The completion of the async function; hasCMA: whether PublicKeyCredential carries
\* isConditionalMediationAvailable when the probe reads it, answer: what that
\* platform query resolves to.
isAutofillSupported(hasCMA, answer) ==
    IF pkc = "undefined" THEN Throw(PropertyOfUndefinedError)
    ELSE IF ~hasCMA THEN Return(FALSE)
    ELSE Return(answer)

\* Variant: the assertion never throws.
assertBrowserSupportedSkipped == Return(TRUE)

assertBrowserSupported ==
    IF ~isBrowserSupported THEN Throw(UnsupportedError) ELSE Return(TRUE)

\* -------------------------------------------------- cancellation controller

\* Client.abort: the signals aborted after abort() (this.abortController is always set).
abort_signals == aborted \cup {abortController}

\* Variant: the controller is replaced without being aborted first.
handleAbortNoSignal ==
    /\ aborted' = aborted
    /\ abortController' = abortController + 1

\* Variant: the current controller is aborted and kept.
handleAbortKeepController ==
    /\ aborted' = abort_signals
    /\ abortController' = abortController

\* Client.handleAbort: abort the current controller, then install a fresh one.
handleAbort ==
    /\ aborted' = abort_signals
    /\ abortController' = abortController + 1

\* ------------------------------------------------------- backend exchange

\* {...res, from: "server"}
SpreadFromServer(res) ==
    [f \in DOMAIN res \cup {"from"} |-> IF f = "from" THEN "server" ELSE res[f]]

\* The tail shared by the four request functions: await response.json(), then
\* the body on response.ok, else the tagged error.
responseResult(resp) ==
    IF resp.kind = "reject" THEN Throw(resp.err)
    ELSE IF resp.kind = "unparsable" THEN Throw(JsonSyntaxError)
    ELSE IF resp.ok THEN Return(resp.body)
    ELSE Return([error |-> SpreadFromServer(resp.body)])

\* Variant: a non-success body is returned as it is, without the error wrapper.
registerBeginUntagged(resp) ==
    IF resp.kind = "json" /\ ~resp.ok THEN Return(resp.body) ELSE responseResult(resp)

registerBeginRequest(token) == [endpoint |-> "/register/begin", token |-> token]
registerBegin(resp) == responseResult(resp)

\* Variant: the value of the selector is sent in both fields.
signinBeginRequestBoth(signinMethod) ==
    [endpoint |-> "/signin/begin",
     userId |-> IF "userId" \in DOMAIN signinMethod THEN signinMethod.userId
                ELSE IF "alias" \in DOMAIN signinMethod THEN signinMethod.alias ELSE Undefined,
     alias |-> IF "alias" \in DOMAIN signinMethod THEN signinMethod.alias ELSE Undefined]

signinBeginRequest(signinMethod) ==
    [endpoint |-> "/signin/begin",
     userId |-> IF "userId" \in DOMAIN signinMethod THEN signinMethod.userId ELSE Undefined,
     alias |-> IF "alias" \in DOMAIN signinMethod THEN signinMethod.alias ELSE Undefined]
signinBegin(resp) == responseResult(resp)

\* The first completion of ks that threw, else the last one.
RECURSIVE FirstThrow(_)
FirstThrow(ks) ==
    IF Len(ks) = 1 \/ ks[1].threw THEN ks[1] ELSE FirstThrow(Tail(ks))

\* The body of the /register/complete request from the encoded fields, or the
\* first error an encoding threw.
RegisterCompleteBody(credential, session, credentialNickname, rawId, attestationObject, clientDataJson) ==
    IF FirstThrow(<<rawId, attestationObject, clientDataJson>>).threw
    THEN FirstThrow(<<rawId, attestationObject, clientDataJson>>)
    ELSE Return([endpoint |-> "/register/complete", session |-> session,
                 id |-> credential.id, rawId |-> rawId.val,
                 AttestationObject |-> attestationObject.val,
                 clientDataJson |-> clientDataJson.val,
                 nickname |-> credentialNickname])

\* The request registerComplete sends, or what building it throws.
registerCompleteRequest(credential, session, credentialNickname) ==
    RegisterCompleteBody(credential, session, credentialNickname,
                         arrayBufferToBase64Url(credential.rawId),
                         arrayBufferToBase64Url(credential.attestationObject),
                         arrayBufferToBase64Url(credential.clientDataJSON))
\* Variant: the success body is wrapped in a data field.
registerCompleteWrapped(resp) ==
    IF resp.kind = "json" /\ resp.ok THEN Return([data |-> resp.body]) ELSE responseResult(resp)

registerComplete(resp) == responseResult(resp)

SigninCompleteBody(credential, session, rawId, authenticatorData, clientDataJson, signature) ==
    IF FirstThrow(<<rawId, authenticatorData, clientDataJson, signature>>).threw
    THEN FirstThrow(<<rawId, authenticatorData, clientDataJson, signature>>)
    ELSE Return([endpoint |-> "/signin/complete", session |-> session,
                 id |-> credential.id, rawId |-> rawId.val,
                 authenticatorData |-> authenticatorData.val,
                 clientDataJson |-> clientDataJson.val,
                 signature |-> signature.val])

\* The request signinComplete sends, or what building it throws; reading
\* credential.response of a null credential is a TypeError.
signinCompleteRequest(credential, session) ==
    IF credential = NullCredential THEN Throw(PropertyOfUndefinedError)
    ELSE SigninCompleteBody(credential, session,
                            arrayBufferToBase64Url([type |-> "Uint8Array", bytes |-> credential.rawId.bytes]),
                            arrayBufferToBase64Url(credential.authenticatorData),
                            arrayBufferToBase64Url(credential.clientDataJSON),
                            arrayBufferToBase64Url(credential.signature))
signinComplete(resp) == responseResult(resp)

\* ------------------------------------------------- decoding of the options

\* cred.id = base64UrlToArrayBuffer(cred.id) for one descriptor, then the rest.
DecodedIds(head, rest) ==
    IF head.threw THEN head
    ELSE IF rest.threw THEN rest
    ELSE Return(<<[id |-> head.val]>> \o rest.val)

\* Decodes the ids of a credential descriptor list in order (forEach).
RECURSIVE decodeIds(_)
decodeIds(creds) ==
    IF Len(creds) = 0 THEN Return(<< >>)
    ELSE DecodedIds(base64UrlToArrayBuffer(creds[1].id), decodeIds(Tail(creds)))

DecodedRegistration(challenge, userId, exclude) ==
    IF FirstThrow(<<challenge, userId, exclude>>).threw
    THEN FirstThrow(<<challenge, userId, exclude>>)
    ELSE Return([challenge |-> challenge.val, user |-> [id |-> userId.val],
                 excludeCredentials |-> exclude.val])

\* register: challenge, user.id, excludeCredentials?.forEach.
decodeRegistration(registration) ==
    IF "data" \notin DOMAIN registration THEN Throw(PropertyOfUndefinedError)
    ELSE DecodedRegistration(base64UrlToArrayBuffer(registration.data.challenge),
                             base64UrlToArrayBuffer(registration.data.user.id),
                             IF "excludeCredentials" \in DOMAIN registration.data
                             THEN decodeIds(registration.data.excludeCredentials)
                             ELSE Return(<< >>))

DecodedSignin(challenge, allow) ==
    IF FirstThrow(<<challenge, allow>>).threw
    THEN FirstThrow(<<challenge, allow>>)
    ELSE Return([challenge |-> challenge.val, allowCredentials |-> allow.val])

\* signin: challenge, allowCredentials?.forEach.
decodeSignin(signin) ==
    IF "data" \notin DOMAIN signin THEN Throw(PropertyOfUndefinedError)
    ELSE DecodedSignin(base64UrlToArrayBuffer(signin.data.challenge),
                       IF "allowCredentials" \in DOMAIN signin.data
                       THEN decodeIds(signin.data.allowCredentials)
                       ELSE Return(<< >>))

\* ------------------------------------------------------------ catch blocks

ClientError(errorCode, title) ==
    [error |-> [from |-> "client", errorCode |-> errorCode, title |-> title]]

\* Variant: the catch block rethrows.
registerCatchRethrow(caughtError) == Throw(caughtError)

registerCatch(caughtError) == Return(ClientError("unknown", getErrorMessage(caughtError)))

\* Variant: the catch block rethrows.
signinCatchRethrow(caughtError) == Throw(caughtError)

signinCatch(caughtError) == Return(ClientError("unknown", getErrorMessage(caughtError)))

failedCreateCredential ==
    ClientError("failed_create_credential",
                "Failed to create credential (navigator.credentials.create returned null)")

\* ------------------------------------------------------------- segments

Pending(i, pc, op) ==
    /\ i \in DOMAIN calls
    /\ calls[i].pc = pc
    /\ calls[i].op = op

\* What a segment of a ceremony ends with: the promise settles with completion k,
\* or the ceremony issues a request or an authenticator call x and awaits it.
Done(k) == [done |-> TRUE, k |-> k]
Await(x) == [done |-> FALSE, x |-> x]

\* Call c awaits x at pc.
Issue(c, pc, x) ==
    IF pc = "probe" THEN [c EXCEPT !.pc = pc]
    ELSE IF pc = "begin" THEN [c EXCEPT !.pc = pc, !.beginReq = {x}]
    ELSE IF pc = "auth" THEN [c EXCEPT !.pc = pc, !.authCall = {x}]
    ELSE [c EXCEPT !.pc = pc, !.completeReq = {x}]

\* calls after call i (record c) has run a segment that ended with step.
Applied(i, c, step, cause, pc) ==
    Put(i, IF step.done THEN Settle(c, step.k, cause) ELSE Issue(c, pc, step.x))

\* Call i (record c) has run a segment that ended with step.
Apply(i, c, step, cause, pc) == calls' = Applied(i, c, step, cause, pc)

\* cs after abort() or a sign-in start by call i: the other sign-in calls that await
\* /signin/begin have seen it.
Disturbed(cs, i) ==
    [j \in DOMAIN cs |->
        IF j # i /\ cs[j].op = "signin" /\ cs[j].pc = "begin"
        THEN [cs[j] EXCEPT !.disturbed = TRUE] ELSE cs[j]]

\* Which input ended a ceremony at its begin response / at its authenticator result.
BeginCause(resp) ==
    IF resp.kind = "reject" THEN "transport"
    ELSE IF resp.kind = "unparsable" THEN "unparsable"
    ELSE IF ~resp.ok THEN "server"
    ELSE IF "error" \in DOMAIN resp.body THEN "error_in_body" ELSE "codec"

CompleteCause(resp) ==
    IF resp.kind = "reject" THEN "transport"
    ELSE IF resp.kind = "unparsable" THEN "unparsable"
    ELSE IF ~resp.ok THEN "server" ELSE "ok"

CredentialCause(credential) ==
    IF credential = NullCredential THEN "null_credential" ELSE "codec"

\* ------------------------------------------------------------- register

\* register from its call to `await this.registerBegin(token)`.
registerStart(token) ==
    IF assertBrowserSupported.threw THEN Done(registerCatch(assertBrowserSupported.err))
    ELSE Await(registerBeginRequest(token))

\* The decoded options go to navigator.credentials.create (no signal, no mediation).
registerCreate(options) ==
    IF options.threw THEN Done(registerCatch(options.err))
    ELSE Await([capability |-> "create", signal |-> {}, mediation |-> Undefined])

\* register from the settlement of registerBegin to `await navigator.credentials.create`.
registerAfterBegin(registration) ==
    IF registration.threw THEN Done(registerCatch(registration.err))
    ELSE IF "error" \in DOMAIN registration.val
    THEN Done(Return([error |-> registration.val.error]))
    ELSE registerCreate(decodeRegistration(registration.val))

\* return await this.registerComplete(...): up to its `await fetch`.
registerSend(request) ==
    IF request.threw THEN Done(registerCatch(request.err)) ELSE Await(request.val)

\* Variant: no null check, the null credential goes into registerComplete.
registerAfterCreateUnchecked(credential, session, credentialNickname) ==
    IF credential = NullCredential THEN Done(registerCatch(PropertyOfUndefinedError))
    ELSE registerSend(registerCompleteRequest(credential, session, credentialNickname))

\* register from the settlement of create to the `await fetch` of registerComplete.
registerAfterCreate(credential, session, credentialNickname) ==
    IF credential = NullCredential THEN Done(Return(failedCreateCredential))
    ELSE registerSend(registerCompleteRequest(credential, session, credentialNickname))

\* register from the settlement of registerComplete to its return.
registerAfterComplete(res) ==
    IF res.threw THEN Done(registerCatch(res.err)) ELSE Done(res)

\* Variant: register cancels the pending sign-in as signin does.
registerWithHandleAbort(token, credentialNickname) ==
    /\ Len(calls) < MaxCalls
    /\ Apply(Len(calls) + 1, NewCall("register", "register", token, credentialNickname),
             registerStart(token), "unsupported", "begin")
    /\ IF assertBrowserSupported.threw
       THEN UNCHANGED <<pkc, abortController, aborted, codec>>
       ELSE handleAbort /\ UNCHANGED <<pkc, codec>>

\* The public register(token, credentialNickname) is called.
register(token, credentialNickname) ==
    /\ Len(calls) < MaxCalls
    /\ Apply(Len(calls) + 1, NewCall("register", "register", token, credentialNickname),
             registerStart(token), "unsupported", "begin")
    /\ UNCHANGED <<pkc, abortController, aborted, codec>>

\* /register/begin settles: fetch rejects, or the body of the Response settles.
registerBeginReturns(i, resp) ==
    /\ Pending(i, "begin", "register")
    /\ Answers(calls[i], resp)
    /\ Apply(i, Received(calls[i], resp), registerAfterBegin(registerBegin(resp)),
             BeginCause(resp), "auth")
    /\ UNCHANGED <<pkc, abortController, aborted, codec>>

\* navigator.credentials.create resolves.
createResolves(i, credential) ==
    /\ Pending(i, "auth", "register")
    /\ Apply(i, calls[i], registerAfterCreate(credential, calls[i].session, calls[i].nickname),
             CredentialCause(credential), "complete")
    /\ UNCHANGED <<pkc, abortController, aborted, codec>>

\* navigator.credentials.create rejects.
createRejects(i, err) ==
    /\ Pending(i, "auth", "register")
    /\ Apply(i, calls[i], Done(registerCatch(err)), "authenticator", "done")
    /\ UNCHANGED <<pkc, abortController, aborted, codec>>

\* /register/complete settles: fetch rejects, or the body of the Response settles.
registerCompleteReturns(i, resp) ==
    /\ Pending(i, "complete", "register")
    /\ Answers(calls[i], resp)
    /\ Apply(i, Received(calls[i], resp), registerAfterComplete(registerComplete(resp)),
             CompleteCause(resp), "done")
    /\ UNCHANGED <<pkc, abortController, aborted, codec>>

\* -------------------------------------------------------------- sign-in

Mediation(signinMethod) ==
    IF "autofill" \in DOMAIN signinMethod THEN "conditional" ELSE Undefined

\* The argument `undefined` of signin.
NoMethod == [undefined |-> TRUE]

\* if (!signinMethod) signinMethod = { discoverable: true }
normaliseMethod(signinMethod) ==
    IF signinMethod = NoMethod THEN [discoverable |-> TRUE] ELSE signinMethod

\* The decoded options go to navigator.credentials.get with the signal of
\* controller and the mediation of the selector.
signinGet(signinMethod, options, controller) ==
    IF options.threw THEN Done(signinCatch(options.err))
    ELSE Await([capability |-> "get", signal |-> {controller},
                mediation |-> Mediation(signinMethod)])

\* Variant: the retrieval is started whatever /signin/begin answered.
signinAfterBeginUngated(signinMethod, res, controller) ==
    IF res.threw THEN Done(signinCatch(res.err))
    ELSE Await([capability |-> "get", signal |-> {controller},
                mediation |-> Mediation(signinMethod)])

\* signin from the settlement of signinBegin to `await navigator.credentials.get`;
\* controller is this.abortController when the call is made.
signinAfterBegin(signinMethod, res, controller) ==
    IF res.threw THEN Done(signinCatch(res.err))
    ELSE IF "error" \in DOMAIN res.val THEN Done(res)
    ELSE signinGet(signinMethod, decodeSignin(res.val), controller)

\* await this.signinComplete(...): up to its `await fetch`.
signinSend(request) ==
    IF request.threw THEN Done(signinCatch(request.err)) ELSE Await(request.val)

\* Variant: the session of the client's first ceremony is sent.
signinAfterGetFirstSession(credential, session) ==
    signinSend(signinCompleteRequest(credential, Sessions[1]))

\* signin from the settlement of get to the `await fetch` of signinComplete.
signinAfterGet(credential, session) ==
    signinSend(signinCompleteRequest(credential, session))

\* signin from the settlement of signinComplete to its return.
signinAfterComplete(response) ==
    IF response.threw THEN Done(signinCatch(response.err)) ELSE Done(response)

\* signin from its call to `await this.signinBegin(signinMethod)`.
signinStart(signinMethod) ==
    IF assertBrowserSupported.threw THEN Done(signinCatch(assertBrowserSupported.err))
    ELSE Await(signinBeginRequest(normaliseMethod(signinMethod)))

\* signin(signinMethod) runs for call i (record c): handleAbort once the assertion passed.
signin(i, c, signinMethod) ==
    IF assertBrowserSupported.threw
    THEN /\ Apply(i, [c EXCEPT !.selector = {normaliseMethod(signinMethod)}],
                  signinStart(signinMethod), "unsupported", "begin")
         /\ UNCHANGED <<pkc, abortController, aborted, codec>>
    ELSE /\ handleAbort
         /\ calls' = Disturbed(Applied(i, [c EXCEPT !.selector = {normaliseMethod(signinMethod)},
                                                   !.armed = abortController'],
                                       signinStart(signinMethod), "unsupported", "begin"), i)
         /\ UNCHANGED <<pkc, codec>>

signinWithId(userId) ==
    /\ Len(calls) < MaxCalls
    /\ signin(Len(calls) + 1, NewCall("signin", "signinWithId", userId, Undefined),
              [userId |-> userId])

signinWithAlias(alias) ==
    /\ Len(calls) < MaxCalls
    /\ signin(Len(calls) + 1, NewCall("signin", "signinWithAlias", alias, Undefined),
              [alias |-> alias])

signinWithDiscoverable ==
    /\ Len(calls) < MaxCalls
    /\ signin(Len(calls) + 1, NewCall("signin", "signinWithDiscoverable", Undefined, Undefined),
              [discoverable |-> TRUE])

\* signin called without a selector (the private method, e.g. from untyped code).
signinWithoutMethod ==
    /\ Len(calls) < MaxCalls
    /\ signin(Len(calls) + 1, NewCall("signin", "signin", Undefined, Undefined), NoMethod)

\* Variant: an answer of false does not stop the call.
autofillGateLenient(probe) ==
    IF probe.threw THEN Done(probe) ELSE Await(TRUE)

\* The probe of signinWithAutofill settled with completion probe: the call rejects
\* (the probe threw, or answered false), or goes on into signin.
autofillGate(probe) ==
    IF probe.threw THEN Done(probe)
    ELSE IF ~probe.val THEN Done(Throw(AutofillUnsupportedError))
    ELSE Await(TRUE)

AutofillCause(probe) == IF probe.threw THEN "probe_threw" ELSE "autofill_unsupported"

\* Call c has seen isAutofillSupported() settle with completion probe.
Probed(c, probe) ==
    [c EXCEPT !.probe = IF probe.threw THEN "threw" ELSE IF probe.val THEN "true" ELSE "false"]

\* The call record of signinWithAutofill(): the call is suspended at
\* `await isAutofillSupported()`, whether or not the probe delegates.
AutofillCall(hasCMA) ==
    [NewCall("signin", "signinWithAutofill", Undefined, Undefined)
        EXCEPT !.cma = IF hasCMA THEN "present" ELSE "absent", !.probe = "pending"]

\* signinWithAutofill() is called: to `await isAutofillSupported()`; the promise is
\* pending when the call returns. Only an existing PublicKeyCredential can carry
\* isConditionalMediationAvailable.
signinWithAutofill(hasCMA) ==
    /\ Len(calls) < MaxCalls
    /\ hasCMA => pkc # "undefined"
    /\ Apply(Len(calls) + 1, AutofillCall(hasCMA), Await(TRUE), "none", "probe")
    /\ UNCHANGED <<pkc, abortController, aborted, codec>>

\* The completion of the probe call i awaits; answer is what the platform's
\* isConditionalMediationAvailable() resolves to when the probe delegates.
ProbeOf(c, answer) == isAutofillSupported(c.cma = "present", answer)

\* `await isAutofillSupported()` settles for call i.
autofillProbeReturns(i, answer) ==
    /\ Pending(i, "probe", "signin")
    /\ IF autofillGate(ProbeOf(calls[i], answer)).done
       THEN /\ Apply(i, Probed(calls[i], ProbeOf(calls[i], answer)),
                     autofillGate(ProbeOf(calls[i], answer)),
                     AutofillCause(ProbeOf(calls[i], answer)), "probe")
            /\ UNCHANGED <<pkc, abortController, aborted, codec>>
       ELSE signin(i, Probed(calls[i], ProbeOf(calls[i], answer)), [autofill |-> TRUE])

\* The selector signin keeps in its local signinMethod.
MethodOf(c) == CHOOSE m \in c.selector : TRUE

\* /signin/begin settles: fetch rejects, or the body of the Response settles.
signinBeginReturns(i, resp) ==
    /\ Pending(i, "begin", "signin")
    /\ Answers(calls[i], resp)
    /\ Apply(i, [Received(calls[i], resp) EXCEPT !.disturbed = FALSE],
             signinAfterBegin(MethodOf(calls[i]), signinBegin(resp), abortController),
             BeginCause(resp), "auth")
    /\ UNCHANGED <<pkc, abortController, aborted, codec>>

\* The signal passed to the authenticator call of c is aborted.
SignalAborted(c) == \E a \in c.authCall : a.signal \cap aborted # {}

\* navigator.credentials.get resolves (only while its signal is not aborted).
getResolves(i, credential) ==
    /\ Pending(i, "auth", "signin")
    /\ ~SignalAborted(calls[i])
    /\ Apply(i, calls[i], signinAfterGet(credential, calls[i].session),
             CredentialCause(credential), "complete")
    /\ UNCHANGED <<pkc, abortController, aborted, codec>>

\* navigator.credentials.get rejects for a reason of the authenticator.
getRejects(i, err) ==
    /\ Pending(i, "auth", "signin")
    /\ Apply(i, calls[i], Done(signinCatch(err)), "authenticator", "done")
    /\ UNCHANGED <<pkc, abortController, aborted, codec>>

\* Variant: an aborted retrieval is never rejected.
getAbortedNever(i) ==
    /\ FALSE
    /\ UNCHANGED vars

\* navigator.credentials.get rejects with AbortError: its signal is aborted.
getAborted(i) ==
    /\ Pending(i, "auth", "signin")
    /\ SignalAborted(calls[i])
    /\ Apply(i, calls[i], Done(signinCatch(AbortError)), "aborted", "done")
    /\ UNCHANGED <<pkc, abortController, aborted, codec>>

\* /signin/complete settles: fetch rejects, or the body of the Response settles.
signinCompleteReturns(i, resp) ==
    /\ Pending(i, "complete", "signin")
    /\ Answers(calls[i], resp)
    /\ Apply(i, Received(calls[i], resp), signinAfterComplete(signinComplete(resp)),
             CompleteCause(resp), "done")
    /\ UNCHANGED <<pkc, abortController, aborted, codec>>

\* ---------------------------------------------------------------- fetch

\* The fetch call i awaits resolves with a Response whose ok is ok: the request
\* function calls response.json() and awaits the body.
fetchResolves(i, ok) ==
    /\ i \in DOMAIN calls
    /\ calls[i].pc \in {"begin", "complete"}
    /\ calls[i].status = "none"
    /\ calls' = [calls EXCEPT ![i].status = StatusOf(ok)]
    /\ UNCHANGED <<pkc, abortController, aborted, codec>>

\* ---------------------------------------------------------------- abort

\* Variant: abort() also replaces the controller.
abortAndReplace ==
    /\ aborted' = abort_signals
    /\ abortController' = abortController + 1
    /\ calls' = Disturbed(calls, 0)
    /\ UNCHANGED <<pkc, codec>>

\* The public abort().
abort ==
    /\ aborted' = abort_signals
    /\ calls' = Disturbed(calls, 0)
    /\ UNCHANGED <<pkc, abortController, codec>>

\* ----------------------------------------------------------------- spec

Next ==
    \/ \E t \in Tokens, n \in Nicknames : register(t, n)
    \/ \E i \in 1..MaxCalls : \E resp \in Responses(RegisterBeginBodies(Sessions[i]), TransportErrors) :
          registerBeginReturns(i, resp)
    \/ \E i \in 1..MaxCalls, cred \in CreatedCredentials \cup {NullCredential} : createResolves(i, cred)
    \/ \E i \in 1..MaxCalls, err \in AuthenticatorErrors : createRejects(i, err)
    \/ \E i \in 1..MaxCalls, resp \in Responses(TokenBodies, {FetchFailedError}) :
          registerCompleteReturns(i, resp)
    \/ \E u \in UserIds : signinWithId(u)
    \/ \E a \in Aliases : signinWithAlias(a)
    \/ signinWithDiscoverable
    \/ signinWithoutMethod
    \/ \E hasCMA \in BOOLEAN : signinWithAutofill(hasCMA)
    \/ \E i \in 1..MaxCalls, answer \in BOOLEAN : autofillProbeReturns(i, answer)
    \/ \E i \in 1..MaxCalls : \E resp \in Responses(SigninBeginBodies(Sessions[i]), {FetchFailedError}) :
          signinBeginReturns(i, resp)
    \/ \E i \in 1..MaxCalls, cred \in RetrievedCredentials \cup {NullCredential} : getResolves(i, cred)
    \/ \E i \in 1..MaxCalls, err \in AuthenticatorErrors : getRejects(i, err)
    \/ \E i \in 1..MaxCalls : getAborted(i)
    \/ \E i \in 1..MaxCalls, resp \in Responses(TokenBodies, {FetchFailedError}) :
          signinCompleteReturns(i, resp)
    \/ \E i \in 1..MaxCalls, ok \in BOOLEAN : fetchResolves(i, ok)
    \/ abort

Spec == Init /\ [][Next]_vars

\* The client where every network request is eventually answered and a retrieval
\* whose signal is aborted is eventually rejected. The authenticator is under no
\* obligation to answer (neither create nor a retrieval that is not aborted), and
\* the caller under none to make further calls.
Fairness ==
    \A i \in 1..MaxCalls :
        /\ WF_vars(\E resp \in Responses(RegisterBeginBodies(Sessions[i]), TransportErrors) :
                      registerBeginReturns(i, resp))
        /\ WF_vars(\E resp \in Responses(TokenBodies, {FetchFailedError}) :
                      registerCompleteReturns(i, resp))
        /\ WF_vars(\E resp \in Responses(SigninBeginBodies(Sessions[i]), {FetchFailedError}) :
                      signinBeginReturns(i, resp))
        /\ WF_vars(\E resp \in Responses(TokenBodies, {FetchFailedError}) :
                      signinCompleteReturns(i, resp))
        /\ WF_vars(getAborted(i))

FairSpec == Spec /\ Fairness

\* ------------------------------------------------------- the codec alone

\* The codec functions applied directly to a value: an input is drawn, then
\* arrayBufferToBase64Url and base64UrlToArrayBuffer are applied in any order, each
\* to the value the one before returned. The client is left as constructed.

ByteValues == {0, 1, 63, 128, 251, 255}
BufferTypes == {"Uint8Array", "ArrayBuffer", "Array"}
WireChars == {"A", "Q", "R", "8", "-", "_", "+", "/", "=", " ", "!"}

SeqsUpTo(S, n) == UNION {[1..k -> S] : k \in 0..n}

\* Every single byte, and the sequences over ByteValues up to MaxBytes.
ByteInputs ==
    { [type |-> t, bytes |-> bs] :
        t \in BufferTypes, bs \in SeqsUpTo(ByteValues, MaxBytes) \cup {<<b>> : b \in 0..255} }

TextInputs == { Str(cs) : cs \in SeqsUpTo(WireChars, MaxText) }

\* The value the next conversion is applied to: a one-element set, empty once a
\* conversion has thrown.
Current ==
    IF codec.steps = << >> THEN {codec.input}
    ELSE IF codec.steps[Len(codec.steps)].out.threw THEN {}
    ELSE {codec.steps[Len(codec.steps)].out.val}

CodecInit ==
    /\ pkc = "function"
    /\ abortController = 0
    /\ aborted = {}
    /\ calls = << >>
    /\ codec \in [input : ByteInputs \cup TextInputs, steps : {<< >>}]

encode ==
    /\ Len(codec.steps) < MaxConversions
    /\ \E v \in Current :
          codec' = [codec EXCEPT !.steps = Append(@, [op |-> "encode", out |-> arrayBufferToBase64Url(v)])]
    /\ UNCHANGED <<pkc, abortController, aborted, calls>>

decode ==
    /\ Len(codec.steps) < MaxConversions
    /\ \E v \in Current :
          codec' = [codec EXCEPT !.steps = Append(@, [op |-> "decode", out |-> base64UrlToArrayBuffer(v)])]
    /\ UNCHANGED <<pkc, abortController, aborted, calls>>

CodecNext == encode \/ decode

CodecSpec == CodecInit /\ [][CodecNext]_vars

\* ================================================================ claims

Calls == DOMAIN calls

\* r is {error: {from: "client", errorCode, title}} and nothing else.
IsClientError(r, errorCode) ==
    /\ DOMAIN r = {"error"}
    /\ DOMAIN r.error = {"from", "errorCode", "title"}
    /\ r.error.from = "client"
    /\ r.error.errorCode = errorCode

Resolved(c) == c.pc = "done" /\ c.outcome = "resolved"
Rejected(c) == c.pc = "done" /\ c.outcome = "rejected"

\* Call c has issued nothing: no request, no authenticator call.
IssuedNothing(c) == c.beginReq = {} /\ c.authCall = {} /\ c.completeReq = {}

\* ---- C1
\* C1 as stated: when the environment-support check returns false, every ceremony
\* call that has ended has thrown (its promise is rejected, not resolved to a Result),
\* and it has issued no network request.
C1_ThrowsWhenUnsupported ==
    ~isBrowserSupported =>
        \A i \in Calls : calls[i].pc = "done" =>
            Rejected(calls[i]) /\ IssuedNothing(calls[i])

\* C1 amended: when the environment-support check returns false, no ceremony call
\* issues a network request or invokes the authenticator; register, signinWithId,
\* signinWithAlias, signinWithDiscoverable (and signin without a selector) do not
\* throw but resolve to {error: {from: "client", errorCode: "unknown", title: the
\* assertion's message}}; signinWithAutofill either rejects from its autofill probe
\* or resolves to that same Result.
C1_UnsupportedIsReturned ==
    ~isBrowserSupported =>
        \A i \in Calls : calls[i].pc # "forgotten" =>
            /\ IssuedNothing(calls[i])
            /\ calls[i].pc \in {"probe", "done"}
            /\ calls[i].pc = "done" =>
                  \/ /\ Resolved(calls[i])
                     /\ IsClientError(calls[i].result, "unknown")
                     /\ calls[i].result.error.title = UnsupportedError.message
                  \/ /\ Rejected(calls[i])
                     /\ calls[i].entry = "signinWithAutofill"

C1_Witness ==
    /\ ~isBrowserSupported
    /\ Len(calls) = 2
    /\ calls[1].pc = "forgotten"
    /\ calls[2].entry = "register" /\ Resolved(calls[2])

\* ---- C2
\* The sign-in ceremonies whose credential-retrieval call is outstanding with a
\* signal that is not aborted.
ActiveRetrievals ==
    {i \in Calls : calls[i].op = "signin" /\ calls[i].pc = "auth" /\ ~SignalAborted(calls[i])}

\* C2: at most one active retrieval per client: in every reachable state at most
\* one sign-in ceremony has a retrieval call outstanding whose signal is not aborted.
C2_AtMostOneActiveRetrieval == Cardinality(ActiveRetrievals) <= 1

\* ---- C3
\* Call j issues its /signin/begin request in this step.
IssuesSigninBegin(j) ==
    /\ j \in DOMAIN calls'
    /\ calls'[j].op = "signin" /\ calls'[j].beginReq # {}
    /\ j \in Calls => calls[j].beginReq = {}

\* C3: in the step in which a sign-in ceremony issues /signin/begin, the signal of
\* every sign-in ceremony pending retrieval is aborted (and stays so: signals are
\* never reset), so the first's retrieval is cancelled before the second proceeds.
C3_SupersededBeforeBegin ==
    [][\A j \in 1..MaxCalls : IssuesSigninBegin(j) =>
          \A i \in Calls : (calls[i].op = "signin" /\ calls[i].pc = "auth") =>
              \A a \in calls[i].authCall : a.signal \subseteq aborted']_vars

C3_Witness ==
    \E i, j \in Calls :
        /\ calls[i].op = "signin" /\ calls[i].pc = "auth"
        /\ \A a \in calls[i].authCall : a.signal \subseteq aborted /\ a.signal # {abortController}
        /\ calls[j].op = "signin" /\ calls[j].pc = "begin"
        /\ abortController \notin aborted

\* ---- C4
\* C4: a call whose last response was a parsed non-success response has resolved
\* to {error: {...body, from: "server"}} (every field of the body but from kept,
\* from = "server"), and when that response was the begin response, it has neither
\* invoked the authenticator nor sent a complete request.
C4_ServerErrorPassedThrough ==
    \A i \in Calls : calls[i].respKind = "server" =>
        /\ Resolved(calls[i])
        /\ DOMAIN calls[i].result = {"error"}
        /\ \A body \in calls[i].lastBody :
              /\ DOMAIN calls[i].result.error = DOMAIN body \cup {"from"}
              /\ calls[i].result.error.from = "server"
              /\ \A f \in DOMAIN body \ {"from"} : calls[i].result.error[f] = body[f]
        /\ calls[i].lastBody # {}
        /\ calls[i].respAt = "begin" => calls[i].authCall = {} /\ calls[i].completeReq = {}

C4_Witness ==
    \E i \in Calls :
        /\ calls[i].respKind = "server" /\ calls[i].respAt = "begin"
        /\ calls[i].op = "register"
        /\ calls[i].lastBody = {[errorCode |-> "invalid_token"]}
        /\ calls[i].result = [error |-> [errorCode |-> "invalid_token", from |-> "server"]]

\* ---- C5
\* A register call whose /register/complete request got a success response.
RegisterCompleted(c) ==
    c.op = "register" /\ c.respAt = "complete" /\ c.respKind = "ok"

\* C5 as stated: when /register/complete succeeds with body R, register resolves
\* to {data: R}.
C5_ResolvesToDataR ==
    \A i \in Calls : RegisterCompleted(calls[i]) =>
        /\ Resolved(calls[i])
        /\ \A R \in calls[i].lastBody : calls[i].result = [data |-> R]

\* C5 amended: when /register/complete succeeds with body R, register resolves to
\* R itself, the response body as the backend sent it, not wrapped in a data field.
C5_ResolvesToR ==
    \A i \in Calls : RegisterCompleted(calls[i]) =>
        /\ Resolved(calls[i])
        /\ calls[i].lastBody # {}
        /\ \A R \in calls[i].lastBody : calls[i].result = R

C5_Witness ==
    \E i \in Calls :
        /\ RegisterCompleted(calls[i])
        /\ calls[i].result = [token |-> "verify123"]

\* ---- C6
\* C6: a sign-in ceremony pending retrieval whose signal is aborted leaves that
\* state only by resolving to {error: {from: "client", errorCode: "unknown", title}}:
\* it does not reject and it does not send /signin/complete.
C6_AbortedRetrievalResolves ==
    [][\A i \in Calls :
          (calls[i].op = "signin" /\ calls[i].pc = "auth" /\ SignalAborted(calls[i])) =>
              \/ calls'[i].pc = "auth"
              \/ /\ Resolved(calls'[i])
                 /\ IsClientError(calls'[i].result, "unknown")
                 /\ calls'[i].completeReq = {}]_vars

C6_Witness ==
    \E i \in Calls :
        /\ calls[i].op = "signin" /\ calls[i].cause = "aborted"
        /\ SignalAborted(calls[i])
        /\ Resolved(calls[i])
        /\ calls[i].result.error.title = AbortError.message

\* ---- C7
\* The failures of a ceremony after its environment assertion.
LaterFailures == {"transport", "unparsable", "codec", "authenticator", "aborted"}

\* C7: a ceremony that passed the environment assertion (it issued its begin
\* request) never rejects; ended by a transport rejection, an unparsable body, a
\* codec error, an authenticator rejection or a null sign-in credential, it has
\* resolved to {error: {from: "client", errorCode: "unknown", title}}.
C7_NeverRejectsAfterAssertion ==
    \A i \in Calls : (calls[i].pc = "done" /\ calls[i].beginReq # {}) =>
        /\ Resolved(calls[i])
        /\ (\/ calls[i].cause \in LaterFailures
            \/ calls[i].cause = "null_credential" /\ calls[i].op = "signin")
           => IsClientError(calls[i].result, "unknown")

C7_Witness ==
    \E i \in Calls :
        /\ calls[i].op = "register" /\ calls[i].cause = "transport"
        /\ calls[i].endedAt = "complete"
        /\ Resolved(calls[i])

\* ---- C8
\* C8: a register call whose credential creation resolved to null has resolved to
\* {error: {from: "client", errorCode: "failed_create_credential", title}} and has
\* sent no /register/complete request.
C8_NullCreateFails ==
    \A i \in Calls : (calls[i].op = "register" /\ calls[i].cause = "null_credential") =>
        /\ Resolved(calls[i])
        /\ IsClientError(calls[i].result, "failed_create_credential")
        /\ calls[i].completeReq = {}

C8_Witness ==
    \E i \in Calls :
        /\ calls[i].op = "register" /\ calls[i].cause = "null_credential"
        /\ calls[i].endedAt = "auth"

\* ---- C9
\* C9: the /signin/begin request of signinWithId(u) carries userId = u and no alias,
\* that of signinWithAlias(a) alias = a and no userId, that of the other entry points
\* neither; and the retrieval call asks for conditional mediation exactly when the
\* entry point is signinWithAutofill.
C9_SelectorTranslation ==
    \A i \in Calls : calls[i].op = "signin" =>
        /\ \A r \in calls[i].beginReq :
              /\ calls[i].entry = "signinWithId" =>
                    r.userId = calls[i].arg /\ r.alias = Undefined
              /\ calls[i].entry = "signinWithAlias" =>
                    r.alias = calls[i].arg /\ r.userId = Undefined
              /\ calls[i].entry \in {"signinWithDiscoverable", "signinWithAutofill", "signin"} =>
                    r.userId = Undefined /\ r.alias = Undefined
              /\ r.userId = Undefined \/ r.alias = Undefined
        /\ \A a \in calls[i].authCall :
              (a.mediation = "conditional") <=> (calls[i].entry = "signinWithAutofill")

C9_Witness ==
    /\ Len(calls) = 2
    /\ calls[1].entry = "signinWithAlias" /\ calls[1].authCall # {}
    /\ calls[2].entry = "signinWithAutofill" /\ calls[2].authCall # {}

\* ---- C10
\* A register call is made or advances in this step.
RegisterSteps ==
    \E i \in DOMAIN calls' :
        /\ calls'[i].op = "register"
        /\ i \in Calls => (calls[i].pc # calls'[i].pc \/ calls[i].status # calls'[i].status)

\* C10: no step of a register call changes the controller or its aborted flag, and
\* the creation call of a register call is given no cancellation signal (so neither
\* abort() nor a sign-in start can cancel it).
C10_RegisterLeavesController ==
    [][/\ RegisterSteps => (abortController' = abortController /\ aborted' = aborted)
       /\ \A i \in DOMAIN calls' : calls'[i].op = "register" =>
             \A a \in calls'[i].authCall : a.signal = {}]_vars

C10_Witness ==
    /\ Len(calls) = 2
    /\ calls[1].op = "signin" /\ calls[1].pc = "auth" /\ ~SignalAborted(calls[1])
    /\ calls[2].op = "register" /\ calls[2].pc = "complete"

\* ---- C11
\* A step in which no call is made and no call advances: a step of abort().
AbortSteps ==
    /\ DOMAIN calls' = DOMAIN calls
    /\ \A i \in Calls : calls'[i].pc = calls[i].pc /\ calls'[i].status = calls[i].status

\* A sign-in ceremony starts in this step: call j issues /signin/begin.
SigninStarts == \E j \in 1..MaxCalls : IssuesSigninBegin(j)

\* C11: a step of abort() leaves the controller in place and its signal aborted,
\* and changes no other signal; the controller is replaced only in a step that
\* starts a sign-in ceremony, and then the old controller's signal is aborted and
\* the new controller is a fresh one whose signal is not aborted.
C11_AbortKeepsController ==
    [][/\ AbortSteps =>
             /\ abortController' = abortController
             /\ aborted' = aborted \cup {abortController}
       /\ abortController' # abortController =>
             /\ SigninStarts
             /\ abortController \in aborted'
             /\ abortController' \notin aborted' \cup {abortController}
             /\ aborted' = aborted \cup {abortController}]_vars

C11_Witness ==
    /\ abortController = 1
    /\ aborted = {0, 1}
    /\ \E i \in Calls : calls[i].op = "signin" /\ calls[i].pc = "begin" /\ calls[i].disturbed

\* ---- C12
\* Call i learns in this step that the autofill-support check is false.
ProbeAnswersFalse(i) ==
    /\ i \in DOMAIN calls'
    /\ calls'[i].probe = "false"
    /\ i \in Calls => calls[i].probe # "false"

\* C12: in the step in which signinWithAutofill learns that the autofill-support
\* check is false, the call rejects with the descriptive Error, it has issued no
\* /signin/begin request and no authenticator call, it has armed no controller, and
\* the controller and every signal are left as they were.
C12_AutofillFailsFast ==
    [][\A i \in 1..MaxCalls : ProbeAnswersFalse(i) =>
          /\ calls'[i].entry = "signinWithAutofill"
          /\ Rejected(calls'[i])
          /\ calls'[i].result = [thrown |-> AutofillUnsupportedError]
          /\ IssuedNothing(calls'[i])
          /\ calls'[i].armed = "none"
          /\ abortController' = abortController
          /\ aborted' = aborted]_vars

C12_Witness ==
    /\ isBrowserSupported
    /\ Len(calls) = 2
    /\ calls[1].op = "signin" /\ calls[1].pc = "auth" /\ ~SignalAborted(calls[1])
    /\ calls[2].cma = "present" /\ calls[2].probe = "false" /\ Rejected(calls[2])

\* ---- C13
\* C13: whenever isConditionalMediationAvailable is absent, in every environment
\* (PublicKeyCredential absent included), the autofill-support probe has resolved
\* to false once it has settled: it has not thrown; and when the function is
\* present the probe does not throw either.
C13_ProbeFalseWhenAbsent ==
    \A i \in Calls :
        /\ calls[i].cma = "absent" => calls[i].probe \in {"pending", "false"}
        /\ calls[i].cma = "present" => calls[i].probe \in {"pending", "false", "true"}

\* ---- C14
\* The conversions made so far are exactly ops, in that order.
Converted(ops) ==
    /\ Len(codec.steps) = Len(ops)
    /\ \A k \in 1..Len(ops) : codec.steps[k].op = ops[k]

IsBuffer(v) == v.type \in BufferTypes

\* C14: a byte sequence B (the empty one included) encodes without error to a
\* text, and decoding that text returns without error exactly the bytes of B.
C14_BytesRoundTrip ==
    /\ (IsBuffer(codec.input) /\ Len(codec.steps) >= 1 /\ codec.steps[1].op = "encode") =>
          /\ ~codec.steps[1].out.threw
          /\ codec.steps[1].out.val.type = "string"
    /\ (IsBuffer(codec.input) /\ Converted(<<"encode", "decode">>)) =>
          /\ ~codec.steps[2].out.threw
          /\ codec.steps[2].out.val.bytes = codec.input.bytes

C14_Witness ==
    /\ codec.input = [type |-> "ArrayBuffer", bytes |-> <<251, 255, 0, 63>>]
    /\ Converted(<<"encode", "decode">>)
    /\ codec.steps[1].out.val = Str(<<"-", "_", "8", "A", "P", "w">>)
    /\ codec.steps[2].out.val.bytes = <<251, 255, 0, 63>>

\* ---- C15
UrlSafeChars == (B64Alphabet \ {"+", "/"}) \cup {"-", "_"}

\* cs is unpadded URL-safe base64 text.
UrlSafe(cs) == \A k \in 1..Len(cs) : cs[k] \in UrlSafeChars

\* The 6-bit value of a URL-safe character.
UrlIndex(c) == IF c = "-" THEN 62 ELSE IF c = "_" THEN 63 ELSE B64Index(c)

\* cs is a text the encoder can produce: URL-safe, not of length 1 mod 4, and the
\* bits of the last character that belong to no byte are zero.
Canonical(cs) ==
    /\ UrlSafe(cs)
    /\ Len(cs) % 4 # 1
    /\ Len(cs) % 4 = 2 => UrlIndex(cs[Len(cs)]) % 16 = 0
    /\ Len(cs) % 4 = 3 => UrlIndex(cs[Len(cs)]) % 4 = 0

\* The input is a text and the decoder accepted it.
TextAccepted ==
    /\ codec.input.type = "string"
    /\ Len(codec.steps) >= 1
    /\ codec.steps[1].op = "decode"
    /\ ~codec.steps[1].out.threw

\* C15 as stated: for every unpadded URL-safe base64 text T that the decoder
\* accepts, encoding the decoded bytes returns exactly T.
C15_TextRoundTrip ==
    (TextAccepted /\ UrlSafe(codec.input.chars) /\ Converted(<<"decode", "encode">>)) =>
        codec.steps[2].out = Return(codec.input)

\* C15 amended: the decoder accepts every canonical text T (unpadded URL-safe base64
\* whose length is not 1 mod 4 and whose unused trailing bits are zero), and encoding
\* the decoded bytes returns exactly T; for every other text the decoder accepts,
\* the encoder returns a canonical text different from it.
C15_CanonicalTextRoundTrip ==
    /\ (codec.input.type = "string" /\ Canonical(codec.input.chars)
           /\ Len(codec.steps) >= 1 /\ codec.steps[1].op = "decode") =>
          ~codec.steps[1].out.threw
    /\ (TextAccepted /\ Converted(<<"decode", "encode">>)) =>
          /\ ~codec.steps[2].out.threw
          /\ Canonical(codec.steps[2].out.val.chars)
          /\ Canonical(codec.input.chars) <=> codec.steps[2].out.val = codec.input

C15_Witness ==
    /\ codec.input = Str(<<"-", "_", "8">>)
    /\ Converted(<<"decode", "encode">>)
    /\ codec.steps[1].out.val.bytes = <<251, 255>>
    /\ codec.steps[2].out.val = Str(<<"-", "_", "8">>)

\* ---- C16
\* The call record of i before this step (a call not yet made has issued nothing).
Before(i) == IF i \in Calls THEN calls[i] ELSE NewCall("none", "none", Undefined, Undefined)

\* The await of the last step call c has issued.
LastIssued(c) ==
    IF c.completeReq # {} THEN "complete"
    ELSE IF c.authCall # {} THEN "auth"
    ELSE IF c.beginReq # {} THEN "begin"
    ELSE IF c.probe = "pending" THEN "probe" ELSE "call"

CredentialIds == {cred.id : cred \in CreatedCredentials \cup RetrievedCredentials}

\* C16: a call issues its begin request only when the environment check passes; it
\* invokes the authenticator only in the step in which its own begin request gets a
\* success response; it sends its complete request only in the step in which its
\* authenticator call returns a credential, whose id the request carries; and it
\* settles only in the step in which the last step it issued returns (or at its
\* call, having issued nothing).
C16_StepsInSequence ==
    [][\A i \in DOMAIN calls' : calls'[i].pc # "forgotten" =>
          /\ calls'[i].beginReq # {} => isBrowserSupported
          /\ (calls'[i].authCall # {} /\ Before(i).authCall = {}) =>
                /\ Before(i).pc = "begin" /\ Before(i).beginReq # {}
                /\ Before(i).status = "ok"
                /\ calls'[i].respAt = "begin" /\ calls'[i].respKind = "ok"
                /\ calls'[i].completeReq = {}
          /\ (calls'[i].completeReq # {} /\ Before(i).completeReq = {}) =>
                /\ Before(i).pc = "auth" /\ Before(i).authCall # {}
                /\ \A r \in calls'[i].completeReq : r.id \in CredentialIds
          /\ (calls'[i].pc = "done" /\ Before(i).pc # "done") =>
                /\ Before(i).pc = LastIssued(Before(i))
                /\ Before(i).pc \in {"begin", "complete"} => calls'[i].respAt = Before(i).pc
                /\ calls'[i].status = "none"
                /\ Before(i).pc = "call" => IssuedNothing(calls'[i])
          /\ calls'[i].pc \in {"probe", "begin", "auth", "complete"} =>
                calls'[i].pc = LastIssued(calls'[i])]_vars

C16_Witness ==
    \E i \in Calls :
        /\ calls[i].op = "signin" /\ calls[i].pc = "done"
        /\ calls[i].respAt = "complete" /\ calls[i].respKind = "ok"
        /\ calls[i].beginReq # {} /\ calls[i].authCall # {} /\ calls[i].completeReq # {}

\* ---- C17
\* C17: the session sent in the complete request of a ceremony is the session its
\* own begin response returned (the backend gave Sessions[i] to call i), unmodified,
\* and no session given to another call.
C17_SessionThreaded ==
    \A i \in Calls : \A r \in calls[i].completeReq :
        /\ r.session = Sessions[i]
        /\ r.session = calls[i].session
        /\ \A j \in 1..MaxCalls : j # i => r.session # Sessions[j]

C17_Witness ==
    /\ Len(calls) = 2
    /\ calls[1].op = "register" /\ calls[1].pc = "complete"
    /\ calls[2].op = "signin" /\ calls[2].pc = "complete"
    /\ \A r \in calls[1].completeReq : r.session = "s1"
    /\ \A r \in calls[2].completeReq : r.session = "s2"

\* ---- C18
\* Call i waits on the authenticator.
AwaitsAuthenticator(i) == i \in Calls /\ calls[i].pc = "auth"

\* Call i has ended (Completed or Failed); Failed: it resolved to a client error.
Ended(i) == i \in Calls /\ calls[i].pc \in {"done", "forgotten"}
Failed(i) ==
    /\ i \in Calls /\ Resolved(calls[i])
    /\ IsClientError(calls[i].result, "unknown")

\* Call i leaves the wait on the authenticator in this step only because the
\* authenticator call resolved (the complete request is sent, or building it
\* failed, or the credential is null), rejected, or was aborted.
LeavesByAuthenticator(i) ==
    \/ calls'[i].pc = "complete" /\ calls'[i].completeReq # {}
    \/ calls'[i].pc = "done" /\ calls'[i].endedAt = "auth"
          /\ calls'[i].cause \in {"null_credential", "codec", "authenticator"}
    \/ calls'[i].pc = "done" /\ calls'[i].endedAt = "auth"
          /\ calls'[i].cause = "aborted"
          /\ calls[i].op = "signin" /\ SignalAborted(calls[i])

\* C18: a ceremony leaves the wait on the authenticator only when the authenticator
\* call resolves, rejects or (sign-in) is aborted; and when every request is
\* eventually answered and every aborted retrieval eventually rejects, a sign-in
\* whose signal is aborted while it is pending retrieval eventually reaches Failed,
\* and a ceremony whose authenticator call returned (it awaits its complete
\* request) eventually ends.
C18_AuthenticatorWaitEnds ==
    /\ [][\A i \in Calls :
             (calls[i].pc = "auth" /\ calls'[i].pc # "auth") => LeavesByAuthenticator(i)]_vars
    /\ \A i \in 1..MaxCalls :
          (AwaitsAuthenticator(i) /\ calls[i].op = "signin" /\ SignalAborted(calls[i]))
              ~> Failed(i)
    /\ \A i \in 1..MaxCalls :
          (i \in Calls /\ calls[i].pc = "complete") ~> Ended(i)

C18_Witness ==
    \E i \in Calls :
        /\ calls[i].entry = "signinWithAutofill"
        /\ calls[i].cause = "aborted" /\ calls[i].endedAt = "auth"
        /\ Failed(i)
        /\ calls[i].armed \in aborted

\* ---- C19
\* C19: the signal a sign-in ceremony passes to its retrieval call is the signal of
\* the controller this ceremony installed at its start; so a ceremony superseded
\* while it awaited /signin/begin starts its retrieval with an aborted signal, and
\* holds the signal of no later ceremony.
C19_SignalIsOwn ==
    \A i \in Calls : calls[i].op = "signin" =>
        \A a \in calls[i].authCall :
            /\ a.signal = {calls[i].armed}
            /\ \A j \in Calls :
                  (j # i /\ calls[j].op = "signin" /\ calls[j].armed # "none") =>
                      a.signal # {calls[j].armed}

\* ---- C20
\* Call i makes its retrieval call in this step.
CallsGet(i) ==
    /\ calls[i].op = "signin" /\ calls[i].pc = "begin"
    /\ calls'[i].authCall # {}

\* C20: when a sign-in makes its retrieval call and neither abort() nor another
\* sign-in start has run since this ceremony's start, the signal it passes is the
\* one of its own controller and is not aborted, whatever was aborted before the
\* ceremony started.
C20_EarlierAbortDoesNotCancel ==
    [][\A i \in Calls : (CallsGet(i) /\ ~calls[i].disturbed) =>
          \A a \in calls'[i].authCall :
              /\ a.signal = {calls[i].armed}
              /\ a.signal \cap aborted' = {}]_vars

C20_Witness ==
    /\ Len(calls) = 2
    /\ calls[1].op = "signin" /\ calls[1].cause = "aborted" /\ calls[1].armed = 1
    /\ calls[2].op = "signin" /\ calls[2].pc = "auth" /\ calls[2].armed = 2
    /\ aborted = {0, 1}
    /\ \A a \in calls[2].authCall : a.signal = {2}

====
